---- MODULE Spec2Model ----
(***************************************************************************)
(* Listings backend (server.js): the normalizeIncoming validation pipeline, *)
(* the Listing collection behind the /api/listings handlers, and the PIN /  *)
(* signed-cookie admin gate of the gated deployment variant.                *)
(*                                                                         *)
(* Strings are sequences of one-character strings, so that trim and length *)
(* are computed.  Numbers are fixed-point: the integer n stands for the    *)
(* value n / Scale, with separate NaN and Infinity values.                 *)
(***************************************************************************)
EXTENDS Integers, Sequences, FiniteSets

VARIABLES
  gated,         \* TRUE: the variant with requireAdmin on the write routes
  ADMIN_PIN,     \* process.env.ADMIN_PIN, trimmed
  ADMIN_SECRET,  \* process.env.ADMIN_SECRET, trimmed
  now,           \* Date.now()
  db,            \* the Listing collection: a set of documents, _id unique
  nextOid,       \* the next ObjectId the driver generates
  issued,        \* the session tokens signToken has produced so far
  cookie,        \* the admin browser's admin_session cookie
  arg,           \* the body under evaluation (normalizer specification only)
  resp           \* the exchange just completed: the request and its answer

vars == <<gated, ADMIN_PIN, ADMIN_SECRET, now, db, nextOid, issued, cookie, arg, resp>>

(***************************************************************************)
(* Bounds of the model.                                                    *)
(***************************************************************************)
Scale == 2
MaxOid == 1
MaxSkew == 1

(***************************************************************************)
(* Strings.                                                                *)
(***************************************************************************)
WS == {" ", "\t", "\n"}
Digits == <<"0", "1", "2", "3", "4", "5", "6", "7", "8", "9">>
DigitSet == {Digits[i] : i \in 1..10}

Rep(c, n) == [i \in 1..n |-> c]

RECURSIVE TrimStart(_)
TrimStart(s) ==
  IF s # <<>> /\ Head(s) \in WS THEN TrimStart(Tail(s)) ELSE s

RECURSIVE TrimEnd(_)
TrimEnd(s) ==
  IF s # <<>> /\ s[Len(s)] \in WS THEN TrimEnd(SubSeq(s, 1, Len(s) - 1)) ELSE s

\* String.prototype.trim
Trim(s) == TrimEnd(TrimStart(s))

DigitVal(c) == (CHOOSE i \in 1..10 : Digits[i] = c) - 1

RECURSIVE NatToStr(_)
NatToStr(n) ==
  IF n < 10 THEN <<Digits[n + 1]>>
  ELSE NatToStr(n \div 10) \o <<Digits[(n % 10) + 1]>>

RECURSIVE StrToNat(_)
StrToNat(s) ==
  IF s = <<>> THEN 0
  ELSE 10 * StrToNat(SubSeq(s, 1, Len(s) - 1)) + DigitVal(s[Len(s)])

(***************************************************************************)
(* JSON / JavaScript values.  Every value has the same four fields so that *)
(* values of different types can be compared.                              *)
(*   t : "undef" "null" "str" "num" "nan" "inf" "bool" "arr"               *)
(*   s : the characters of a string                                        *)
(*   n : a number times Scale; 1/0 for a boolean                           *)
(*   a : the elements of an array                                          *)
(***************************************************************************)
JVal(t, s, n, a) == [t |-> t, s |-> s, n |-> n, a |-> a]
JUndef == JVal("undef", <<>>, 0, <<>>)
JNull == JVal("null", <<>>, 0, <<>>)
JStr(s) == JVal("str", s, 0, <<>>)
JNum(n) == JVal("num", <<>>, n, <<>>)
JInt(i) == JNum(i * Scale)
JNaN == JVal("nan", <<>>, 0, <<>>)
JInf == JVal("inf", <<>>, 0, <<>>)
JBool(b) == JVal("bool", <<>>, IF b THEN 1 ELSE 0, <<>>)
JArr(a) == JVal("arr", <<>>, 0, a)

\* body[k], undefined for a key the object does not have
Get(body, k) == IF k \in DOMAIN body THEN body[k] ELSE JUndef

\* ToBoolean: what `x ? .. : ..`, `x || y` and `!!x` test
Truthy(x) ==
  CASE x.t \in {"undef", "null", "nan"} -> FALSE
    [] x.t = "str" -> x.s # <<>>
    [] x.t = "num" -> x.n # 0
    [] x.t = "bool" -> x.n = 1
    [] OTHER -> TRUE

\* x || y
Or(x, y) == IF Truthy(x) THEN x ELSE y

\* Number.prototype.toString of a finite number (one fractional digit)
NumToStr(n) ==
  LET m == IF n < 0 THEN 0 - n ELSE n
      whole == NatToStr(m \div Scale)
      frac == IF m % Scale = 0 THEN <<>>
              ELSE <<".">> \o NatToStr(((m % Scale) * 10) \div Scale)
  IN (IF n < 0 THEN <<"-">> ELSE <<>>) \o whole \o frac

RECURSIVE StringOf(_)
RECURSIVE JoinArr(_)
\* Array.prototype.join(","): null and undefined elements are empty
JoinArr(a) ==
  IF a = <<>> THEN <<>>
  ELSE LET h == IF Head(a).t \in {"undef", "null"} THEN <<>> ELSE StringOf(Head(a))
       IN IF Len(a) = 1 THEN h ELSE h \o <<",">> \o JoinArr(Tail(a))

\* String(x)
StringOf(x) ==
  CASE x.t = "undef" -> <<"u", "n", "d", "e", "f", "i", "n", "e", "d">>
    [] x.t = "null" -> <<"n", "u", "l", "l">>
    [] x.t = "str" -> x.s
    [] x.t = "num" -> NumToStr(x.n)
    [] x.t = "nan" -> <<"N", "a", "N">>
    [] x.t = "inf" -> <<"I", "n", "f", "i", "n", "i", "t", "y">>
    [] x.t = "bool" -> IF x.n = 1 THEN <<"t", "r", "u", "e">>
                       ELSE <<"f", "a", "l", "s", "e">>
    [] OTHER -> JoinArr(x.a)

\* StringToNumber over the alphabet of the model's inputs: white space,
\* decimal digits and letters (no sign, fraction, exponent or radix prefix).
ParseNum(s) ==
  LET t == Trim(s)
  IN IF t = <<>> THEN JNum(0)
     ELSE IF \A i \in 1..Len(t) : t[i] \in DigitSet THEN JInt(StrToNat(t))
     ELSE IF t = <<"I", "n", "f", "i", "n", "i", "t", "y">> THEN JInf
     ELSE JNaN

\* Number(x)
ToNumber(x) ==
  CASE x.t = "undef" -> JNaN
    [] x.t = "null" -> JNum(0)
    [] x.t = "str" -> ParseNum(x.s)
    [] x.t = "bool" -> JInt(x.n)
    [] x.t = "arr" -> ParseNum(JoinArr(x.a))
    [] OTHER -> x

\* Number.isFinite
IsFinite(x) == x.t = "num"

(***************************************************************************)
(* normalizeIncoming.                                                      *)
(***************************************************************************)
MaxImages == 15

ReqStrKeys == {"title", "type", "city", "description"}
NumKeys == {"price", "area", "rooms"}
OptStrKeys == {"rent", "market", "finish", "heating", "ownership"}
NormKeys ==
  ReqStrKeys \cup NumKeys \cup OptStrKeys \cup {"featured", "floor", "images", "image"}

\* the images kept whole: what the normalizer would do without its slice
SliceImagesAll(a) == a

\* out.images.slice(0, 15)
SliceImages(a) == SubSeq(a, 1, IF Len(a) < MaxImages THEN Len(a) ELSE MaxImages)

\* out.images after lines 83-84
NormImages(x) ==
  IF x.t = "arr"
  THEN LET a == SliceImages(x.a) IN JArr([i \in 1..Len(a) |-> JStr(StringOf(a[i]))])
  ELSE JArr(<<>>)

\* String(out.x || "").trim()
NormReqStr(x) == JStr(Trim(StringOf(Or(x, JStr(<<>>)))))

\* out.x ? String(out.x).trim() : ""
NormOptStr(x) == IF Truthy(x) THEN JStr(Trim(StringOf(x))) ELSE JStr(<<>>)

\* the coercions of lines 63-85: the object `out` before validation
Coerce(body) ==
  LET imgs == NormImages(Get(body, "images"))
      first == IF imgs.a = <<>> THEN JUndef ELSE imgs.a[1]
  IN [k \in (DOMAIN body) \cup NormKeys |->
        CASE k \in ReqStrKeys -> NormReqStr(Get(body, k))
          [] k \in NumKeys -> ToNumber(Get(body, k))
          [] k \in OptStrKeys -> NormOptStr(Get(body, k))
          [] k = "featured" -> JBool(Truthy(Get(body, k)))
          [] k = "floor" ->
               IF Get(body, k) = JStr(<<>>) \/ Get(body, k).t = "undef"
               THEN JNull ELSE Get(body, k)
          [] k = "images" -> imgs
          [] k = "image" ->
               JStr(StringOf(Or(Or(Get(body, k), first), JStr(<<>>))))
          [] OTHER -> body[k]]

NoError == "-"

\* the same checks with the city looked at before the title
ValidateCityFirst(out) ==
  IF Len(out.city.s) < 2 THEN "City too short"
  ELSE IF Len(out.title.s) < 3 THEN "Title too short"
  ELSE IF ~IsFinite(out.price) \/ out.price.n <= 0 THEN "Invalid price"
  ELSE IF ~IsFinite(out.area) \/ out.area.n <= 0 THEN "Invalid area"
  ELSE IF ~IsFinite(out.rooms) \/ out.rooms.n <= 0 THEN "Invalid rooms"
  ELSE IF Len(out.description.s) < 10 THEN "Description too short"
  ELSE IF ~Truthy(out.type) THEN "Type required"
  ELSE NoError

\* the checks of lines 87-93, first failure wins
Validate(out) ==
  IF Len(out.title.s) < 3 THEN "Title too short"
  ELSE IF Len(out.city.s) < 2 THEN "City too short"
  ELSE IF ~IsFinite(out.price) \/ out.price.n <= 0 THEN "Invalid price"
  ELSE IF ~IsFinite(out.area) \/ out.area.n <= 0 THEN "Invalid area"
  ELSE IF ~IsFinite(out.rooms) \/ out.rooms.n <= 0 THEN "Invalid rooms"
  ELSE IF Len(out.description.s) < 10 THEN "Description too short"
  ELSE IF ~Truthy(out.type) THEN "Type required"
  ELSE NoError

\* normalizeIncoming(body): the thrown message, or the object returned
normalizeIncoming(body) ==
  (LET Result(out) == [error |-> Validate(out), out |-> out]
   IN Result(Coerce(body)))

(***************************************************************************)
(* ListingSchema and the Listing model (the document store).  A document   *)
(* is a function from SchemaKeys to values; dates are "date" values whose  *)
(* n is the time in milliseconds.                                         *)
(***************************************************************************)
SchemaKeys == NormKeys \cup {"_id", "createdAt", "updatedAt"}

JDate(ms) == JVal("date", <<>>, ms, <<>>)

\* String(x._id) and its inverse, the cast of a string to an ObjectId
OidStr(i) == <<"o">> \o NatToStr(i)
IsOidStr(x) ==
  /\ x.t = "str"
  /\ Len(x.s) >= 2
  /\ x.s[1] = "o"
  /\ \A i \in 2..Len(x.s) : x.s[i] \in DigitSet

\* the cast of a body's createdAt to a Date: numbers are epoch milliseconds
IsDateLike(x) == x.t = "num" /\ x.n % Scale = 0 /\ x.n >= 0
CastDate(x) == JDate(x.n \div Scale)

\* the schema's validators (required, minlength, min) on the paths present in p
SchemaValid(p) ==
  /\ p.title.t = "str" /\ Len(p.title.s) >= 3
  /\ p.type.t = "str" /\ Len(p.type.s) >= 1
  /\ p.city.t = "str" /\ Len(p.city.s) >= 2
  /\ p.price.t = "num" /\ p.price.n >= 1 * Scale
  /\ p.area.t = "num" /\ p.area.n >= 1 * Scale
  /\ p.rooms.t = "num" /\ p.rooms.n >= 1 * Scale
  /\ p.description.t = "str" /\ Len(p.description.s) >= 10

Ids(d) == {x["_id"] : x \in d}
Has(d, id) == id \in Ids(d)
Find(d, id) == CHOOSE x \in d : x["_id"] = id

NoDoc == [k \in {} |-> JUndef]

\* the outcome of a store call: an error (or NoError), the document
\* returned (or NoDoc), the collection afterwards
Outcome(error, listing, coll) == [error |-> error, listing |-> listing, db |-> coll]

\* the document mongoose builds from a payload: schema paths only (strict),
\* _id as given or generated, createdAt as given or the current time,
\* updatedAt equal to createdAt on a new document
NewDoc(p, id, t) ==
  LET c == IF Get(p, "createdAt").t = "num" THEN CastDate(p.createdAt) ELSE JDate(t)
  IN [k \in SchemaKeys |->
        CASE k = "_id" -> id
          [] k = "createdAt" -> c
          [] k = "updatedAt" -> c
          [] OTHER -> p[k]]

\* Listing.create(payload), with `id` the ObjectId the document gets
ListingCreate(d, p, id, t) ==
  IF ~IsOidStr(id) THEN Outcome("CastError", NoDoc, d)
  ELSE IF Get(p, "createdAt").t \notin {"undef", "null"} /\ ~IsDateLike(p.createdAt)
  THEN Outcome("CastError", NoDoc, d)
  ELSE IF ~SchemaValid(p) THEN Outcome("ValidationError", NoDoc, d)
  ELSE IF Has(d, id) THEN Outcome("E11000 duplicate key", NoDoc, d)
  ELSE LET doc == NewDoc(p, id, t) IN Outcome(NoError, doc, d \cup {doc})

\* an update that lets the payload's createdAt through: what the store would
\* do if createdAt were an ordinary path
UpdatedDocFromPayload(old, p, t) ==
  [k \in SchemaKeys |->
     CASE k = "_id" -> old[k]
       [] k = "createdAt" ->
            IF Get(p, "createdAt").t = "num" THEN CastDate(p.createdAt) ELSE old[k]
       [] k = "updatedAt" -> JDate(t)
       [] OTHER -> p[k]]

\* the document after $set of the payload's schema paths: createdAt and _id
\* are kept, updatedAt is the current time
UpdatedDoc(old, p, t) ==
  [k \in SchemaKeys |->
     CASE k \in {"_id", "createdAt"} -> old[k]
       [] k = "updatedAt" -> JDate(t)
       [] OTHER -> p[k]]

\* Listing.findByIdAndUpdate(id, payload, { new: true, runValidators: true });
\* setsId: whether the payload's _id reaches the store as a $set
ListingFindByIdAndUpdate(d, id, p, t, setsId) ==
  IF ~IsOidStr(id) THEN Outcome("CastError", NoDoc, d)
  ELSE IF "_id" \in DOMAIN p /\ ~IsOidStr(p["_id"]) THEN Outcome("CastError", NoDoc, d)
  ELSE IF ~SchemaValid(p) THEN Outcome("ValidationError", NoDoc, d)
  ELSE IF ~Has(d, id) THEN Outcome(NoError, NoDoc, d)
  ELSE IF setsId /\ "_id" \in DOMAIN p /\ p["_id"] # id
  THEN Outcome("ImmutableField", NoDoc, d)
  ELSE LET old == Find(d, id)
           doc == UpdatedDoc(old, p, t)
       IN Outcome(NoError, doc, (d \ {old}) \cup {doc})

\* Listing.findByIdAndDelete(id)
ListingFindByIdAndDelete(d, id) ==
  IF ~IsOidStr(id) THEN Outcome("CastError", NoDoc, d)
  ELSE IF ~Has(d, id) THEN Outcome(NoError, NoDoc, d)
  ELSE LET old == Find(d, id) IN Outcome(NoError, old, d \ {old})

\* Listing.findById(id).lean()
ListingFindById(d, id) ==
  IF ~IsOidStr(id) THEN Outcome("CastError", NoDoc, d)
  ELSE IF ~Has(d, id) THEN Outcome(NoError, NoDoc, d)
  ELSE Outcome(NoError, Find(d, id), d)

(***************************************************************************)
(* Admin session: the signed cookie.  A cookie value is                    *)
(*   fmt "none"   : no admin_session cookie in the request                 *)
(*   fmt "empty"  : admin_session= (what logout sets)                      *)
(*   fmt "nodot"  : a value without a "." separated signature              *)
(*   fmt "signed" : base64url({iat}) "." HMAC-SHA256(key, payload)         *)
(* HMAC is modelled by the key it was computed with: two signatures are    *)
(* equal exactly when their keys are.                                      *)
(***************************************************************************)
TOKEN_TTL_MS == 1000 * 60 * 60 * 24 * 7

Cookie(fmt, iat, key) == [fmt |-> fmt, iat |-> iat, key |-> key]
NoCookie == Cookie("none", 0, "")
EmptyCookie == Cookie("empty", 0, "")
NoDotCookie == Cookie("nodot", 0, "")

\* signToken({ iat }): null (here NoCookie) without a secret
signToken(iat) ==
  IF ADMIN_SECRET = "" THEN NoCookie ELSE Cookie("signed", iat, ADMIN_SECRET)

\* a verification that never expires a token
verifyTokenNoExpiry(token) ==
  IF ADMIN_SECRET = "" THEN "no_secret"
  ELSE IF token.fmt \in {"none", "empty"} THEN "no_token"
  ELSE IF token.fmt = "nodot" THEN "bad_format"
  ELSE IF token.key # ADMIN_SECRET THEN "bad_sig"
  ELSE "ok"

\* verifyToken(token).reason, "ok" when { ok: true }
verifyToken(token) ==
  IF ADMIN_SECRET = "" THEN "no_secret"
  ELSE IF token.fmt \in {"none", "empty"} THEN "no_token"
  ELSE IF token.fmt = "nodot" THEN "bad_format"
  ELSE IF token.key # ADMIN_SECRET THEN "bad_sig"
  ELSE IF now - token.iat > TOKEN_TTL_MS THEN "expired"
  ELSE "ok"

\* a gate that lets every request through
requireAdminOpen(c) == TRUE

\* requireAdmin lets the request through; the ungated variant has no gate
requireAdmin(c) == gated => verifyToken(c) = "ok"

\* /^\d{5}$/.test(s)
FiveDigits(s) == Len(s) = 5 /\ \A i \in 1..5 : s[i] \in DigitSet

(***************************************************************************)
(* Exchanges.  resp is the exchange the server has just completed: the     *)
(* request as it came in (req) and the answer sent; NoResp when none is    *)
(* on the wire.                                                            *)
(***************************************************************************)
\* a request: req.params.id, req.body, the admin_session cookie, req.body.pin
Req(id, body, c, pin) == [id |-> id, body |-> body, cookie |-> c, pin |-> pin]

NoReq == Req(JUndef, NoDoc, NoCookie, JUndef)

Resp(op, status, error, listing) ==
  [op |-> op, status |-> status, error |-> error, listing |-> listing,
   authed |-> FALSE, req |-> NoReq]

\* the answer r to the request q
To(q, r) == [r EXCEPT !.req = q]

NoResp == Resp("none", 0, NoError, NoDoc)

\* no exchange is on the wire: the client may send its next request
Idle == resp = NoResp

Frame == <<gated, ADMIN_PIN, ADMIN_SECRET, arg>>

(***************************************************************************)
(* The handlers.                                                           *)
(***************************************************************************)
\* time passes
Tick(t) ==
  /\ Idle
  /\ t > now
  /\ now' = t
  /\ UNCHANGED <<Frame, db, nextOid, issued, cookie, resp>>

\* POST /api/admin/login
Login(pinIn) ==
  LET pin == Trim(StringOf(Or(pinIn, JStr(<<>>))))
      q == Req(JUndef, NoDoc, NoCookie, pinIn)
  IN /\ gated
     /\ Idle
     /\ IF ~FiveDigits(pin)
        THEN /\ resp' = To(q, Resp("login", 400, "PIN_INVALID", NoDoc))
             /\ UNCHANGED <<issued, cookie>>
        ELSE IF ~FiveDigits(ADMIN_PIN)
        THEN /\ resp' = To(q, Resp("login", 500, "ADMIN_PIN_NOT_SET", NoDoc))
             /\ UNCHANGED <<issued, cookie>>
        ELSE IF ADMIN_SECRET = ""
        THEN /\ resp' = To(q, Resp("login", 500, "ADMIN_SECRET_NOT_SET", NoDoc))
             /\ UNCHANGED <<issued, cookie>>
        ELSE IF pin # ADMIN_PIN
        THEN /\ resp' = To(q, Resp("login", 401, "PIN_WRONG", NoDoc))
             /\ UNCHANGED <<issued, cookie>>
        ELSE /\ resp' = To(q, Resp("login", 200, NoError, NoDoc))
             /\ issued' = issued \cup {signToken(now)}
             /\ cookie' = signToken(now)
     /\ UNCHANGED <<Frame, now, db, nextOid>>

\* GET /api/admin/me
Me(c) ==
  /\ gated
  /\ Idle
  /\ resp' = To(Req(JUndef, NoDoc, c, JUndef),
                [Resp("me", 200, NoError, NoDoc) EXCEPT !.authed = (verifyToken(c) = "ok")])
  /\ UNCHANGED <<Frame, now, db, nextOid, issued, cookie>>

\* a logout that revokes: the secret is rotated, so that no token issued
\* before verifies after
LogoutRotates ==
  /\ gated
  /\ Idle
  /\ cookie' = EmptyCookie
  /\ ADMIN_SECRET' = "k2"
  /\ resp' = Resp("logout", 200, NoError, NoDoc)
  /\ UNCHANGED <<gated, ADMIN_PIN, arg, now, db, nextOid, issued>>

\* POST /api/admin/logout
Logout ==
  /\ gated
  /\ Idle
  /\ cookie' = EmptyCookie
  /\ resp' = Resp("logout", 200, NoError, NoDoc)
  /\ UNCHANGED <<Frame, now, db, nextOid, issued>>

\* GET /api/listings
ListListings(c) ==
  /\ Idle
  /\ resp' = To(Req(JUndef, NoDoc, c, JUndef), Resp("list", 200, NoError, NoDoc))
  /\ UNCHANGED <<Frame, now, db, nextOid, issued, cookie>>

\* GET /api/listings/:id
GetListing(id, c) ==
  /\ Idle
  /\ \E r \in {ListingFindById(db, id)} :
       resp' = To(Req(id, NoDoc, c, JUndef),
                  IF r.error # NoError THEN Resp("get", 400, r.error, NoDoc)
                  ELSE IF r.listing = NoDoc THEN Resp("get", 404, "Not found", NoDoc)
                  ELSE Resp("get", 200, NoError, r.listing))
  /\ UNCHANGED <<Frame, now, db, nextOid, issued, cookie>>

\* the ObjectId of the document `new Listing(payload)` builds: the payload's
\* _id, else (idSetter: a build whose `id` virtual has a setter) its id,
\* else a generated one
NewId(p, idSetter) ==
  IF "_id" \in DOMAIN p THEN p["_id"]
  ELSE IF idSetter /\ "id" \in DOMAIN p THEN p["id"]
  ELSE JStr(OidStr(nextOid))

GeneratesId(p, idSetter) ==
  "_id" \notin DOMAIN p /\ ~(idSetter /\ "id" \in DOMAIN p)

\* POST /api/listings
CreateListing(body, c, idSetter) ==
  /\ Idle
  /\ GeneratesId(body, idSetter) => nextOid <= MaxOid
  /\ IF ~requireAdmin(c)
     THEN /\ resp' = To(Req(JUndef, body, c, JUndef),
                        Resp("create", 401, "UNAUTHORIZED", NoDoc))
          /\ UNCHANGED <<db, nextOid>>
     ELSE \E n \in {normalizeIncoming(body)} :
          IF n.error # NoError
          THEN /\ resp' = To(Req(JUndef, body, c, JUndef),
                             Resp("create", 400, n.error, NoDoc))
               /\ UNCHANGED <<db, nextOid>>
          ELSE \E r \in {ListingCreate(db, n.out, NewId(n.out, idSetter), now)} :
               /\ db' = r.db
               /\ nextOid' = IF r.error = NoError /\ GeneratesId(body, idSetter)
                             THEN nextOid + 1 ELSE nextOid
               /\ resp' = To(Req(JUndef, body, c, JUndef),
                             IF r.error # NoError
                             THEN Resp("create", 400, r.error, NoDoc)
                             ELSE Resp("create", 201, NoError, r.listing))
  /\ UNCHANGED <<Frame, now, issued, cookie>>

\* PUT /api/listings/:id
UpdateListing(id, body, c, setsId) ==
  /\ Idle
  /\ IF ~requireAdmin(c)
     THEN /\ resp' = To(Req(id, body, c, JUndef),
                        Resp("update", 401, "UNAUTHORIZED", NoDoc))
          /\ UNCHANGED db
     ELSE \E n \in {normalizeIncoming(body)} :
          IF n.error # NoError
          THEN /\ resp' = To(Req(id, body, c, JUndef),
                             Resp("update", 400, n.error, NoDoc))
               /\ UNCHANGED db
          ELSE \E r \in {ListingFindByIdAndUpdate(db, id, n.out, now, setsId)} :
               /\ db' = r.db
               /\ resp' = To(Req(id, body, c, JUndef),
                             IF r.error # NoError
                             THEN Resp("update", 400, r.error, NoDoc)
                             ELSE IF r.listing = NoDoc
                             THEN Resp("update", 404, "Not found", NoDoc)
                             ELSE Resp("update", 200, NoError, r.listing))
  /\ UNCHANGED <<Frame, now, nextOid, issued, cookie>>

\* DELETE /api/listings/:id
DeleteListing(id, c) ==
  /\ Idle
  /\ IF ~requireAdmin(c)
     THEN /\ resp' = To(Req(id, NoDoc, c, JUndef),
                        Resp("delete", 401, "UNAUTHORIZED", NoDoc))
          /\ UNCHANGED db
     ELSE \E r \in {ListingFindByIdAndDelete(db, id)} :
          /\ db' = r.db
          /\ resp' = To(Req(id, NoDoc, c, JUndef),
                        IF r.error # NoError
                        THEN Resp("delete", 400, r.error, NoDoc)
                        ELSE IF r.listing = NoDoc
                        THEN Resp("delete", 404, "Not found", NoDoc)
                        ELSE Resp("delete", 200, NoError, NoDoc))
  /\ UNCHANGED <<Frame, now, nextOid, issued, cookie>>

\* the client reads the answer
Receive ==
  /\ ~Idle
  /\ resp' = NoResp
  /\ UNCHANGED <<Frame, now, db, nextOid, issued, cookie>>

(***************************************************************************)
(* Inputs: the request bodies, ids, cookies and PINs the clients send.     *)
(***************************************************************************)
Overlay(r, q) ==
  [k \in (DOMAIN r) \cup (DOMAIN q) |-> IF k \in DOMAIN q THEN q[k] ELSE r[k]]

EmptyBody == [k \in {} |-> JUndef]

TitleOk == <<"F", "l", "a", "t">>
TitlePadded2 == <<" ", "a", "b", " ", " ">>
CityOk == <<"L", "o", "d", "z">>
City1 == <<"X">>
DescOk == Rep("d", 10)
DescPadded9 == <<" ">> \o Rep("d", 9) \o <<" ">>
TypeOk == <<"s", "a", "l", "e">>

ClientOid == JStr(OidStr(9))
BadOid == JStr(<<"z", "z">>)

\* the required fields only, each at its minimum and of a type to coerce
BodyMin ==
  [title |-> JInt(123), city |-> JStr(<<"L", "d">>), price |-> JInt(1),
   area |-> JStr(<<" ", "5", "0", " ">>), rooms |-> JBool(TRUE),
   description |-> JStr(DescOk), type |-> JStr(TypeOk)]

\* every field set, the optional ones away from their defaults; more images
\* than are kept; timestamps and an id of the client's own
BodyFull ==
  [title |-> JStr(<<" ">> \o TitleOk), city |-> JStr(CityOk), price |-> JInt(250),
   area |-> JInt(50), rooms |-> JInt(2), description |-> JStr(DescOk \o <<" ">>),
   type |-> JStr(TypeOk), rent |-> JStr(<<" ", "9", "0", "0">>),
   market |-> JStr(<<"n", "e", "w">>), finish |-> JInt(1), heating |-> JStr(<<"g">>),
   ownership |-> JStr(<<"f">>), featured |-> JInt(1), floor |-> JInt(0),
   images |-> JArr([i \in 1..(MaxImages + 1) |-> JInt(i)]),
   id |-> ClientOid, createdAt |-> JInt(7), updatedAt |-> JInt(3)]

\* accepted by normalizeIncoming, price between 0 and 1
BodyHalf == Overlay(BodyMin, [price |-> JNum(1)])

\* a patch: one field
BodyPatch == [price |-> JInt(3)]

\* a createdAt that is no date
BodyBadDate == Overlay(BodyMin, [createdAt |-> JStr(<<"x">>)])

\* the :id of a request: a listing's, a well-formed one of no listing, a malformed one
ParamIds == Ids(db) \cup {ClientOid, BadOid}

WithId(b, i) == Overlay(b, [k \in {"_id"} |-> i])

\* the bodies of the create requests
Requests ==
  IF gated THEN {BodyMin}
  ELSE {BodyMin, BodyFull, BodyHalf, BodyPatch, BodyBadDate}
         \cup {WithId(BodyMin, i) : i \in ParamIds}

\* the bodies of the update requests
Patches ==
  IF gated THEN {BodyMin}
  ELSE {BodyMin, BodyFull, BodyPatch, WithId(BodyMin, ClientOid)}

\* the builds a create can tell apart: with or without a setter on `id`
IdChoices(b) == IF GeneratesId(b, FALSE) # GeneratesId(b, TRUE) THEN BOOLEAN ELSE {FALSE}

\* the stores an update can tell apart: an _id in $set refused, or ignored
SetsIdChoices(b) == IF "_id" \in DOMAIN b THEN BOOLEAN ELSE {FALSE}

\* the cookies a client can present: none, malformed, signed with a key of
\* its own, a token that was issued, or what the browser holds
Cookies ==
  IF gated
  THEN {NoCookie, NoDotCookie, Cookie("signed", now, "guess"), cookie} \cup issued
  ELSE {NoCookie}

Pins ==
  {JUndef, JStr(<<"1", "2", "3", "4">>), JStr(<<"5", "4", "3", "2", "1">>),
   JStr(<<" ", "1", "2", "3", "4", "5", " ">>), JInt(12345)}

PinOk == <<"1", "2", "3", "4", "5">>

\* the gated deployments: ADMIN_PIN, ADMIN_SECRET
Deployments ==
  {<<PinOk, "k1">>, <<<<>>, "k1">>, <<<<"1", "2", "3", "4">>, "k1">>, <<PinOk, "">>}

\* the clock readings: the first milliseconds; for the session gate the
\* first one and those a token lifetime later
Readings ==
  IF gated THEN {0} \cup {TOKEN_TTL_MS + k : k \in 0..MaxSkew} ELSE 0..MaxSkew
Times == {t \in Readings : t > now}

(***************************************************************************)
(* The specifications: the variant without the gate, and the gated one.    *)
(***************************************************************************)
InitState ==
  /\ now = 0
  /\ db = {}
  /\ nextOid = 1
  /\ issued = {}
  /\ cookie = NoCookie
  /\ arg = EmptyBody
  /\ resp = NoResp

Init ==
  /\ gated = FALSE
  /\ ADMIN_PIN = <<>>
  /\ ADMIN_SECRET = ""
  /\ InitState

InitGated ==
  /\ gated = TRUE
  /\ \E d \in Deployments : ADMIN_PIN = d[1] /\ ADMIN_SECRET = d[2]
  /\ InitState

Next ==
  \/ \E t \in Times : Tick(t)
  \/ \E c \in Cookies : ListListings(c)
  \/ \E i \in ParamIds, c \in Cookies : GetListing(i, c)
  \/ \E b \in Requests, c \in Cookies : \E s \in IdChoices(b) : CreateListing(b, c, s)
  \/ \E i \in ParamIds, b \in Patches, c \in Cookies :
       \E s \in SetsIdChoices(b) : UpdateListing(i, b, c, s)
  \/ \E i \in ParamIds, c \in Cookies : DeleteListing(i, c)
  \/ Receive

NextGated ==
  \/ Next
  \/ \E p \in Pins : Login(p)
  \/ \E c \in Cookies : Me(c)
  \/ Logout

Spec == Init /\ [][Next]_vars

SpecGated == InitGated /\ [][NextGated]_vars

(***************************************************************************)
(* The normalizer on its own: a body is drawn, normalizeIncoming is        *)
(* applied to it.                                                         *)
(***************************************************************************)
\* a body from a choice of values, JUndef standing for a key left out
MkBody(v) == [k \in {k \in DOMAIN v : v[k] # JUndef} |-> v[k]]

NormTitles ==
  {JUndef, JStr(<<"a", "b">>), JStr(TitlePadded2), JStr(TitleOk), JInt(123), JNum(0)}
NormCities == {JUndef, JStr(City1), JStr(CityOk)}
NormPrices ==
  {JUndef, JInt(1), JNum(1), JNum(0), JNum(0 - Scale),
   JStr(<<"I", "n", "f", "i", "n", "i", "t", "y">>), JStr(<<" ", "5", " ">>)}
NormAreas == {JInt(50), JNull, JStr(<<"x">>)}
NormRooms == {JInt(2), JBool(FALSE), JUndef}
NormDescs == {JStr(DescOk), JStr(DescPadded9), JUndef}
NormTypes == {JStr(TypeOk), JStr(<<" ", " ">>), JUndef}

NormInputs ==
  {MkBody([title |-> t, city |-> c, price |-> p, area |-> a, rooms |-> r,
           description |-> d, type |-> y]) :
     t \in NormTitles, c \in NormCities, p \in NormPrices, a \in NormAreas,
     r \in NormRooms, d \in NormDescs, y \in NormTypes}

InitNorm ==
  /\ gated = FALSE
  /\ ADMIN_PIN = <<>>
  /\ ADMIN_SECRET = ""
  /\ now = 0
  /\ db = {}
  /\ nextOid = 1
  /\ issued = {}
  /\ cookie = NoCookie
  /\ arg \in NormInputs
  /\ resp = NoResp

\* normalizeIncoming(arg): the error thrown, or the object returned
Normalize ==
  /\ Idle
  /\ \E n \in {normalizeIncoming(arg)} :
       resp' = IF n.error # NoError THEN Resp("normalize", 400, n.error, NoDoc)
               ELSE Resp("normalize", 200, NoError, n.out)
  /\ UNCHANGED <<gated, ADMIN_PIN, ADMIN_SECRET, now, db, nextOid, issued, cookie, arg>>

NextNorm == Normalize

SpecNorm == InitNorm /\ [][NextNorm]_vars

(***************************************************************************)
(* The stated rules, as the specification words them, on the coerced       *)
(* fields: rule i of the order title, city, price, area, rooms,            *)
(* description, type.                                                      *)
(***************************************************************************)
RuleErrors ==
  <<"Title too short", "City too short", "Invalid price", "Invalid area",
    "Invalid rooms", "Description too short", "Type required">>

Positive(x) == x.t = "num" /\ x.n > 0

RuleViolated(i, o) ==
  CASE i = 1 -> Len(o.title.s) < 3
    [] i = 2 -> Len(o.city.s) < 2
    [] i = 3 -> ~Positive(o.price)
    [] i = 4 -> ~Positive(o.area)
    [] i = 5 -> ~Positive(o.rooms)
    [] i = 6 -> Len(o.description.s) < 10
    [] OTHER -> o.type.s = <<>>

Violated(body) == {i \in 1..7 : RuleViolated(i, Coerce(body))}

FirstViolated(body) ==
  IF Violated(body) = {} THEN NoError
  ELSE RuleErrors[CHOOSE i \in Violated(body) : \A j \in Violated(body) : i <= j]

\* a stored or returned listing meets the data model's constraints
WellFormed(d) ==
  /\ Positive(d.price) /\ Positive(d.area) /\ Positive(d.rooms)
  /\ d.title.t = "str" /\ d.title.s = Trim(d.title.s) /\ Len(d.title.s) >= 3
  /\ d.city.t = "str" /\ d.city.s = Trim(d.city.s) /\ Len(d.city.s) >= 2
  /\ d.description.t = "str" /\ d.description.s = Trim(d.description.s)
  /\ Len(d.description.s) >= 10
  /\ d.type.t = "str" /\ d.type.s # <<>>
  /\ d.images.t = "arr" /\ Len(d.images.a) <= MaxImages

Writes == {"create", "update", "delete"}

(***************************************************************************)
(* C1: update(id, patch) merges the patch onto the stored record: if the   *)
(* record overlaid with the patch passes validation the update succeeds    *)
(* and every field the patch does not name keeps its value.                *)
(***************************************************************************)
C1_UpdateMergesPatch ==
  [][LET q == resp'.req
     IN (/\ resp'.op = "update"
         /\ requireAdmin(q.cookie)
         /\ Has(db, q.id)
         /\ "_id" \notin DOMAIN q.body
         /\ Violated(Overlay(Find(db, q.id), q.body)) = {})
        => /\ resp'.status = 200
           /\ \A k \in NormKeys \ DOMAIN q.body :
                resp'.listing[k] = Find(db, q.id)[k]]_vars

(***************************************************************************)
(* C2 as stated: a successful update returns the pre-update id and         *)
(* createdAt, and an updatedAt strictly greater than the pre-update one.   *)
(***************************************************************************)
C2_UpdatedAtStrictlyIncreases ==
  [][LET q == resp'.req
     IN (resp'.op = "update" /\ resp'.status = 200)
        => /\ resp'.listing["_id"] = q.id
           /\ resp'.listing.createdAt = Find(db, q.id).createdAt
           /\ resp'.listing.updatedAt.n > Find(db, q.id).updatedAt.n]_vars

(***************************************************************************)
(* C2 as amended: a successful update returns the pre-update id and        *)
(* createdAt whatever id, createdAt or updatedAt the body carries, and its *)
(* updatedAt is the clock reading of the update; so it is strictly greater *)
(* than the pre-update updatedAt exactly when the clock has passed it.     *)
(***************************************************************************)
C2_UpdateKeepsIdAndCreatedAt ==
  [][LET q == resp'.req
     IN (resp'.op = "update" /\ resp'.status = 200)
        => /\ Has(db, q.id)
           /\ resp'.listing["_id"] = q.id
           /\ resp'.listing.createdAt = Find(db, q.id).createdAt
           /\ resp'.listing.updatedAt = JDate(now)
           /\ resp'.listing \in db'
           /\ (resp'.listing.updatedAt.n > Find(db, q.id).updatedAt.n)
                <=> (now > Find(db, q.id).updatedAt.n)]_vars

\* an update whose body carried createdAt 7, updatedAt 3 and an id of its
\* own has been answered, on a record created at an earlier clock reading
C2_Witness ==
  /\ resp.op = "update" /\ resp.status = 200
  /\ resp.req.body = BodyFull
  /\ resp.listing.createdAt # JDate(7)
  /\ resp.listing["_id"] # ClientOid
  /\ resp.listing.updatedAt.n > resp.listing.createdAt.n

(***************************************************************************)
(* C3: every creation input valid under the stated rules is created, and   *)
(* the returned listing has a new non-empty id, createdAt = updatedAt and  *)
(* well-formed required fields.                                            *)
(***************************************************************************)
C3_ValidCreateSucceeds ==
  [][LET q == resp'.req
     IN (resp'.op = "create" /\ requireAdmin(q.cookie) /\ Violated(q.body) = {})
        => /\ resp'.status = 201
           /\ resp'.listing["_id"].s # <<>>
           /\ resp'.listing["_id"] \notin Ids(db)
           /\ resp'.listing.createdAt = resp'.listing.updatedAt
           /\ WellFormed(resp'.listing)]_vars

(***************************************************************************)
(* C4: every stored listing has price, area and rooms finite and > 0,      *)
(* trimmed title, city and description of length >= 3, 2 and 10, a         *)
(* non-empty type and at most 15 images.                                   *)
(***************************************************************************)
C4_StoredListingsWellFormed == \A d \in db : WellFormed(d)

\* a listing made from a body of 16 images is stored, and has been updated
C4_Witness ==
  \E d \in db : Len(d.images.a) = MaxImages /\ d.updatedAt # d.createdAt

(***************************************************************************)
(* C5: a request answered 400 or 404 leaves the collection unchanged, and  *)
(* a delete or update naming a (well-formed) id that is not in the store   *)
(* is answered 404.                                                        *)
(***************************************************************************)
C5_ErrorsLeaveCollectionUnchanged ==
  [][LET q == resp'.req
     IN /\ resp'.status \in {400, 404} => db' = db
        /\ (/\ resp'.op \in {"update", "delete"}
            /\ requireAdmin(q.cookie)
            /\ IsOidStr(q.id) /\ ~Has(db, q.id))
           => (resp'.status = 404 /\ db' = db)]_vars

\* the part of C5 that holds: no error response comes with a change
FrameOnError == [][resp'.status \in {400, 401, 404} => db' = db]_vars

LoginSucceeds(p) ==
  /\ FiveDigits(ADMIN_PIN) /\ ADMIN_SECRET # ""
  /\ Trim(StringOf(Or(p, JStr(<<>>)))) = ADMIN_PIN

C7_AcceptedIffIssuedAndFresh ==
  [][LET q == resp'.req
     IN /\ \A c \in Cookies :
             (verifyToken(c) = "ok") <=> (c \in issued /\ now - c.iat <= TOKEN_TTL_MS)
        /\ \A t \in issued : t.iat <= now
        /\ resp'.op = "login"
           => IF LoginSucceeds(q.pin)
              THEN /\ issued' = issued \cup {Cookie("signed", now, ADMIN_SECRET)}
                   /\ resp'.status = 200
              ELSE issued' = issued /\ cookie' = cookie /\ resp'.status # 200
        /\ (issued' # issued) => (resp'.op = "login" /\ LoginSucceeds(q.pin))
        /\ (gated /\ resp'.op \in Writes /\ resp'.status # 401)
           => /\ q.cookie \in issued
              /\ now - TOKEN_TTL_MS <= q.cookie.iat /\ q.cookie.iat <= now]_vars

\* a write has been accepted exactly 7 days after the login
C7_Witness ==
  /\ gated /\ resp.op = "create" /\ resp.status = 201
  /\ resp.req.cookie \in issued
  /\ now - resp.req.cookie.iat = TOKEN_TTL_MS

(***************************************************************************)
(* C8: whatever ids their bodies supply, two creates both persist and ids  *)
(* stay unique: a create of an otherwise acceptable body is persisted as   *)
(* one more listing.                                                       *)
(***************************************************************************)
Acceptable(b) ==
  /\ Violated(b) = {}
  /\ SchemaValid(Coerce(b))
  /\ "createdAt" \notin DOMAIN b
  /\ "_id" \in DOMAIN b => IsOidStr(b["_id"])

C8_CollidingIdsBothPersisted ==
  [][LET q == resp'.req
     IN (resp'.op = "create" /\ requireAdmin(q.cookie) /\ Acceptable(q.body))
        => /\ resp'.status = 201
           /\ Cardinality(db') = Cardinality(db) + 1
           /\ Cardinality(Ids(db')) = Cardinality(db')]_vars

(***************************************************************************)
(* C9: the error normalizeIncoming reports is that of the earliest         *)
(* violated rule in the order title, city, price, area, rooms,             *)
(* description, type, and a body is accepted exactly when it violates none.*)
(***************************************************************************)
C9_FirstFailureWins ==
  resp.op = "normalize" =>
    /\ resp.error = FirstViolated(arg)
    /\ (resp.status = 200) <=> (Violated(arg) = {})

\* a body with a 2-character title and a 1-character city has been rejected
C9_Witness ==
  /\ resp.op = "normalize"
  /\ {1, 2} \subseteq Violated(arg)
  /\ resp.error = "Title too short"

(***************************************************************************)
(* C10: the gate's decision on an issued token depends only on the token,  *)
(* the secret and the time: logout clears the browser's cookie and nothing *)
(* on the server, no login, logout or other request changes the decision,  *)
(* and a write presenting a token issued less than 7 days ago is           *)
(* authorised also after logout.                                           *)
(***************************************************************************)
C10_LogoutDoesNotRevoke ==
  [][LET q == resp'.req
     IN /\ (now' = now)
           => \A t \in issued : (verifyToken(t) = "ok")' = (verifyToken(t) = "ok")
        /\ resp'.op = "logout"
           => /\ cookie' = EmptyCookie
              /\ UNCHANGED <<ADMIN_PIN, ADMIN_SECRET, now, db, nextOid, issued>>
        /\ (/\ resp'.op \in Writes
            /\ cookie = EmptyCookie
            /\ q.cookie \in issued
            /\ now - q.cookie.iat < TOKEN_TTL_MS)
           => resp'.status # 401]_vars

\* after a logout, a create presenting the token of the earlier login
\* succeeded, and a later login has issued a second token
C10_Witness ==
  /\ gated /\ cookie = EmptyCookie /\ Cardinality(issued) > 1
  /\ resp.op = "create" /\ resp.status = 201
  /\ resp.req.cookie \in issued

====
